---- MODULE Spec2Model ----
(***************************************************************************)
(* Model of the SQLCoder text-to-SQL backend (src/backend/main.py): the    *)
(* keyword translator generate_sql, the /generate-sql, /execute-query and  *)
(* /schema handlers, the per-request database session of get_db, and the   *)
(* SQLite database that src/backend/init_db.py seeds.                      *)
(***************************************************************************)
EXTENDS Integers, Sequences, FiniteSets, TLC

VARIABLES
    req,             \* the request each worker is serving, and how far it got
    sessions,        \* the Session objects SessionLocal() has handed out
    db,              \* the committed contents of the database file
    is_initialized,  \* sqlcoder_service.is_initialized
    tq,        \* translator harness: the pair of question texts under test
    tsql,      \* translator harness: the SQL returned for each of the two
    tdone      \* translator harness: which of the two calls has returned

svars == <<req, sessions, db, is_initialized>>
tvars == <<tq, tsql, tdone>>
vars == <<req, sessions, db, is_initialized, tq, tsql, tdone>>

----------------------------------------------------------------------------
(* Text, as Python's str: lower(), upper(), strip(), "in", startswith().   *)

UpperLetters == "ABCDEFGHIJKLMNOPQRSTUVWXYZ"
LowerLetters == "abcdefghijklmnopqrstuvwxyz"
Whitespace == {" ", "\t", "\n"}

CharAt(s, i) == SubSeq(s, i, i)

\* The position of the one-character text c in alphabet, 0 when absent.
IndexIn(c, alphabet) ==
    IF \E i \in 1..Len(alphabet) : CharAt(alphabet, i) = c
    THEN CHOOSE i \in 1..Len(alphabet) : CharAt(alphabet, i) = c
    ELSE 0

\* str.lower() and str.upper() on one character, tabulated over the letters.
LowerTable ==
    [c \in { CharAt(UpperLetters, i) : i \in 1..Len(UpperLetters) } |->
        CharAt(LowerLetters, IndexIn(c, UpperLetters))]

UpperTable ==
    [c \in { CharAt(LowerLetters, i) : i \in 1..Len(LowerLetters) } |->
        CharAt(UpperLetters, IndexIn(c, LowerLetters))]

lowerChar(c) == IF c \in DOMAIN LowerTable THEN LowerTable[c] ELSE c

upperChar(c) == IF c \in DOMAIN UpperTable THEN UpperTable[c] ELSE c

\* Character by character; the text is halved to keep the recursion shallow.
RECURSIVE lower(_)
lower(s) ==
    IF Len(s) = 0 THEN ""
    ELSE IF Len(s) = 1 THEN lowerChar(s)
    ELSE lower(SubSeq(s, 1, Len(s) \div 2))
         \o lower(SubSeq(s, Len(s) \div 2 + 1, Len(s)))

RECURSIVE upper(_)
upper(s) ==
    IF Len(s) = 0 THEN ""
    ELSE IF Len(s) = 1 THEN upperChar(s)
    ELSE upper(SubSeq(s, 1, Len(s) \div 2))
         \o upper(SubSeq(s, Len(s) \div 2 + 1, Len(s)))

RECURSIVE lstrip(_)
lstrip(s) ==
    IF Len(s) > 0 /\ CharAt(s, 1) \in Whitespace
    THEN lstrip(SubSeq(s, 2, Len(s)))
    ELSE s

RECURSIVE rstrip(_)
rstrip(s) ==
    IF Len(s) > 0 /\ CharAt(s, Len(s)) \in Whitespace
    THEN rstrip(SubSeq(s, 1, Len(s) - 1))
    ELSE s

strip(s) == lstrip(rstrip(s))

\* Python's  k in s  on str: k occurs as a contiguous run of s.
Contains(k, s) ==
    \E i \in 1..(Len(s) - Len(k) + 1) : SubSeq(s, i, i + Len(k) - 1) = k

startswith(s, prefix) ==
    Len(s) >= Len(prefix) /\ SubSeq(s, 1, Len(prefix)) = prefix

----------------------------------------------------------------------------
(* SQLCoderService.generate_sql: the seven statements and the dispatch.    *)

SqlMumbai ==
    "SELECT c.first_name, c.last_name, c.city, SUM(o.total_amount) AS total_purchases "
    \o "FROM customers c JOIN orders o ON c.customer_id = o.customer_id "
    \o "WHERE c.city = 'Mumbai' GROUP BY c.customer_id;"

SqlRevenue ==
    "SELECT c.city, SUM(o.total_amount) AS total_revenue "
    \o "FROM customers c JOIN orders o ON c.customer_id = o.customer_id "
    \o "GROUP BY c.city ORDER BY total_revenue DESC;"

SqlAllCustomers == "SELECT * FROM customers ORDER BY registration_date DESC;"

SqlOrderStatus == "SELECT order_id, customer_id, total_amount, status FROM orders;"

SqlProducts == "SELECT * FROM products ORDER BY price DESC;"

SqlOrderCount ==
    "SELECT c.customer_id, c.first_name, COUNT(o.order_id) AS order_count "
    \o "FROM customers c LEFT JOIN orders o ON c.customer_id = o.customer_id "
    \o "GROUP BY c.customer_id ORDER BY order_count DESC;"

SqlFallback == "SELECT * FROM customers LIMIT 10;"

\* generate_sql with its final else branch missing: nothing is returned.
generate_sql_NoFallback(question) ==
    LET q == lower(question) IN
    IF Contains("customers", q) /\ Contains("mumbai", q) THEN SqlMumbai
    ELSE IF Contains("total revenue", q) THEN SqlRevenue
    ELSE IF Contains("all customers", q) THEN SqlAllCustomers
    ELSE IF Contains("orders", q) /\ Contains("status", q) THEN SqlOrderStatus
    ELSE IF Contains("products", q) THEN SqlProducts
    ELSE IF Contains("orders count", q) \/ Contains("number of orders", q)
         THEN SqlOrderCount
    ELSE ""

\* generate_sql with the products branch moved above the orders+status branch.
generate_sql_ProductsFirst(question) ==
    LET q == lower(question) IN
    IF Contains("customers", q) /\ Contains("mumbai", q) THEN SqlMumbai
    ELSE IF Contains("total revenue", q) THEN SqlRevenue
    ELSE IF Contains("all customers", q) THEN SqlAllCustomers
    ELSE IF Contains("products", q) THEN SqlProducts
    ELSE IF Contains("orders", q) /\ Contains("status", q) THEN SqlOrderStatus
    ELSE IF Contains("orders count", q) \/ Contains("number of orders", q)
         THEN SqlOrderCount
    ELSE SqlFallback

\* generate_sql without the lower() of line 76.
generate_sql_CaseSensitive(question) ==
    LET q == question IN
    IF Contains("customers", q) /\ Contains("mumbai", q) THEN SqlMumbai
    ELSE IF Contains("total revenue", q) THEN SqlRevenue
    ELSE IF Contains("all customers", q) THEN SqlAllCustomers
    ELSE IF Contains("orders", q) /\ Contains("status", q) THEN SqlOrderStatus
    ELSE IF Contains("products", q) THEN SqlProducts
    ELSE IF Contains("orders count", q) \/ Contains("number of orders", q)
         THEN SqlOrderCount
    ELSE SqlFallback

\* As generate_sql, but consulting the sessions other requests hold.
generate_sql_Stateful(question) ==
    LET q == lower(question) IN
    IF \E s \in DOMAIN sessions : sessions[s].state = "open" THEN SqlFallback
    ELSE IF Contains("customers", q) /\ Contains("mumbai", q) THEN SqlMumbai
    ELSE IF Contains("total revenue", q) THEN SqlRevenue
    ELSE IF Contains("all customers", q) THEN SqlAllCustomers
    ELSE IF Contains("orders", q) /\ Contains("status", q) THEN SqlOrderStatus
    ELSE IF Contains("products", q) THEN SqlProducts
    ELSE IF Contains("orders count", q) \/ Contains("number of orders", q)
    THEN SqlOrderCount
    ELSE SqlFallback

\* As generate_sql, but the fallback statement quotes the question.
generate_sql_Splice(question) ==
    LET q == lower(question) IN
    IF Contains("customers", q) /\ Contains("mumbai", q) THEN SqlMumbai
    ELSE IF Contains("total revenue", q) THEN SqlRevenue
    ELSE IF Contains("all customers", q) THEN SqlAllCustomers
    ELSE IF Contains("orders", q) /\ Contains("status", q) THEN SqlOrderStatus
    ELSE IF Contains("products", q) THEN SqlProducts
    ELSE IF Contains("orders count", q) \/ Contains("number of orders", q)
    THEN SqlOrderCount
    ELSE "SELECT * FROM customers WHERE first_name = '" \o question \o "';"

generate_sql(question) ==
    LET q == lower(question) IN
    IF Contains("customers", q) /\ Contains("mumbai", q) THEN SqlMumbai
    ELSE IF Contains("total revenue", q) THEN SqlRevenue
    ELSE IF Contains("all customers", q) THEN SqlAllCustomers
    ELSE IF Contains("orders", q) /\ Contains("status", q) THEN SqlOrderStatus
    ELSE IF Contains("products", q) THEN SqlProducts
    ELSE IF Contains("orders count", q) \/ Contains("number of orders", q)
         THEN SqlOrderCount
    ELSE SqlFallback

\* The rules of generate_sql as a table, in the order of its branches: the
\* test of branch i on the lower-cased text, and the statement it returns.
RulePredicate(i, q) ==
    CASE i = 1 -> Contains("customers", q) /\ Contains("mumbai", q)
      [] i = 2 -> Contains("total revenue", q)
      [] i = 3 -> Contains("all customers", q)
      [] i = 4 -> Contains("orders", q) /\ Contains("status", q)
      [] i = 5 -> Contains("products", q)
      [] i = 6 -> Contains("orders count", q) \/ Contains("number of orders", q)
      [] i = 7 -> TRUE

RuleTemplate ==
    << SqlMumbai, SqlRevenue, SqlAllCustomers, SqlOrderStatus, SqlProducts,
       SqlOrderCount, SqlFallback >>

MatchingRules(question) ==
    LET q == lower(question)
    IN { i \in 1..Len(RuleTemplate) : RulePredicate(i, q) }

----------------------------------------------------------------------------
(* Question texts: every concatenation of at most MaxPieces pieces.  The   *)
(* pieces are written as a user types them (mixed case); joined, they      *)
(* reach every rule, every pair of overlapping rules and the empty text.   *)

MaxPieces == 3

Pieces ==
    { "Customers", " from Mumbai", "total revenue", "Show ALL ", "orders",
      " Status", "Products", " count", "Number of ", "asdfasdf" }

RECURSIVE Join(_)
Join(ps) == IF ps = <<>> THEN "" ELSE Head(ps) \o Join(Tail(ps))

Questions ==
    { Join(ps) : ps \in UNION { [1..n -> Pieces] : n \in 0..MaxPieces } }

\* The text with every blank doubled.
RECURSIVE WidenSpaces(_)
WidenSpaces(s) ==
    IF Len(s) = 0 THEN ""
    ELSE IF Len(s) = 1 THEN (IF s = " " THEN "  " ELSE s)
    ELSE WidenSpaces(SubSeq(s, 1, Len(s) \div 2))
         \o WidenSpaces(SubSeq(s, Len(s) \div 2 + 1, Len(s)))

\* Texts that differ from q in letter case or in the amount of whitespace.
Variants(q) == { q, upper(q), WidenSpaces(q) }

----------------------------------------------------------------------------
(* The SQLite database that init_db.py creates.  TEXT dates and REAL       *)
(* amounts are kept as written; the tables in the order sqlite_master      *)
(* lists them (sqlite_sequence appears with the first AUTOINCREMENT table).*)

Col(n, t) == [name |-> n, type |-> t]

SeededTables ==
    << "departments", "sqlite_sequence", "employees", "projects", "attendance",
       "customers", "products", "orders", "order_items" >>

SeededColumns ==
    [ departments |-> << Col("department_id", "INTEGER"), Col("department_name", "TEXT") >>,
      sqlite_sequence |-> << Col("name", ""), Col("seq", "") >>,
      employees |-> << Col("employee_id", "INTEGER"), Col("name", "TEXT"),
                       Col("department_id", "INTEGER"), Col("salary", "REAL"),
                       Col("hire_date", "TEXT") >>,
      projects |-> << Col("project_id", "INTEGER"), Col("project_name", "TEXT"),
                      Col("department_id", "INTEGER") >>,
      attendance |-> << Col("record_id", "INTEGER"), Col("employee_id", "INTEGER"),
                        Col("date", "TEXT"), Col("status", "TEXT") >>,
      customers |-> << Col("customer_id", "INTEGER"), Col("name", "TEXT"),
                       Col("city", "TEXT"), Col("registration_date", "TEXT") >>,
      products |-> << Col("product_id", "INTEGER"), Col("product_name", "TEXT"),
                      Col("price", "REAL"), Col("stock", "INTEGER") >>,
      orders |-> << Col("order_id", "INTEGER"), Col("customer_id", "INTEGER"),
                    Col("order_date", "TEXT"), Col("total_amount", "REAL") >>,
      order_items |-> << Col("order_item_id", "INTEGER"), Col("order_id", "INTEGER"),
                         Col("product_id", "INTEGER"), Col("quantity", "INTEGER") >> ]

SeededCustomers ==
    << <<1, "Vikram Rao", "Bangalore", "2024-11-01">>,
       <<2, "Kiran Das", "Chennai", "2024-11-02">>,
       <<3, "Sneha Iyer", "Mumbai", "2024-11-03">>,
       <<4, "Arun Nair", "Delhi", "2024-11-04">> >>

SeededProducts ==
    << <<1, "Laptop", 55000, 10>>,
       <<2, "Mouse", 700, 100>>,
       <<3, "Keyboard", 1200, 50>>,
       <<4, "Monitor", 10000, 20>>,
       <<5, "Headphones", 2500, 30>> >>

SeededOrders ==
    << <<1, 1, "2025-10-20", 57700>>,
       <<2, 2, "2025-10-21", 62000>>,
       <<3, 3, "2025-10-22", 13200>> >>

\* The committed contents of the database file; writes counts the
\* statements committed since seeding.
SeededDb ==
    [ tables |-> SeededTables,
      columns |-> SeededColumns,
      customers |-> SeededCustomers,
      products |-> SeededProducts,
      orders |-> SeededOrders,
      writes |-> 0 ]

ColumnNames(d, t) == [i \in 1..Len(d.columns[t]) |-> d.columns[t][i].name]

HasTable(d, t) == \E i \in 1..Len(d.tables) : d.tables[i] = t

HasColumn(d, t, c) ==
    HasTable(d, t) /\ \E i \in 1..Len(d.columns[t]) : d.columns[t][i].name = c

\* 1-based position of column c in table t.
ColumnIndex(d, t, c) ==
    CHOOSE i \in 1..Len(d.columns[t]) : d.columns[t][i].name = c

----------------------------------------------------------------------------
(* What SQLite answers to each statement generate_sql can return.          *)

\* BINARY collation on the characters the seeded texts use.
CollationOrder ==
    " '-0123456789ABCDEFGHIJKLMNOPQRSTUVWXYZ_abcdefghijklmnopqrstuvwxyz"

CollationRank ==
    [c \in { CharAt(CollationOrder, i) : i \in 1..Len(CollationOrder) } |->
        IndexIn(c, CollationOrder)]

RECURSIVE TextLess(_, _)
TextLess(a, b) ==
    IF Len(b) = 0 THEN FALSE
    ELSE IF Len(a) = 0 THEN TRUE
    ELSE LET ra == CollationRank[CharAt(a, 1)]
             rb == CollationRank[CharAt(b, 1)]
         IN IF ra # rb THEN ra < rb
            ELSE TextLess(SubSeq(a, 2, Len(a)), SubSeq(b, 2, Len(b)))

NumberLess(a, b) == a < b

\* ORDER BY column k DESC, the column holding text or numbers; rows with
\* equal keys keep their order.
SortDescBy(rows, k, isText) ==
    LET n == Len(rows)
        Less(a, b) == IF isText THEN TextLess(a, b) ELSE NumberLess(a, b)
        pos(i) == 1 + Cardinality({ j \in 1..n :
                        \/ Less(rows[i][k], rows[j][k])
                        \/ (~Less(rows[j][k], rows[i][k]) /\ j < i) })
    IN [p \in 1..n |-> rows[CHOOSE i \in 1..n : pos(i) = p]]

RECURSIVE Sum(_)
Sum(ns) == IF ns = <<>> THEN 0 ELSE Head(ns) + Sum(Tail(ns))

RECURSIVE SelectSeq2(_, _)
\* The subsequence of rows at the positions in keep.
SelectSeq2(rows, keep) ==
    IF rows = <<>> THEN <<>>
    ELSE LET rest == SelectSeq2(SubSeq(rows, 1, Len(rows) - 1), keep)
         IN IF Len(rows) \in keep THEN Append(rest, rows[Len(rows)]) ELSE rest

\* The orders of customer id, and the columns the statements read from them.
OrdersOf(d, id) ==
    LET k == ColumnIndex(d, "orders", "customer_id")
    IN SelectSeq2(d.orders, { i \in 1..Len(d.orders) : d.orders[i][k] = id })

Amounts(d, os) ==
    LET k == ColumnIndex(d, "orders", "total_amount")
    IN [i \in 1..Len(os) |-> os[i][k]]

\* The tables each statement names in FROM/JOIN, in order.
FromTables(sql) ==
    CASE sql = SqlMumbai -> << "customers", "orders" >>
      [] sql = SqlRevenue -> << "customers", "orders" >>
      [] sql = SqlAllCustomers -> << "customers" >>
      [] sql = SqlOrderStatus -> << "orders" >>
      [] sql = SqlProducts -> << "products" >>
      [] sql = SqlOrderCount -> << "customers", "orders" >>
      [] sql = SqlFallback -> << "customers" >>
      [] OTHER -> <<>>

\* The columns each statement names, in order: <<table, column, as written>>.
ColumnRefs(sql) ==
    CASE sql = SqlMumbai ->
            << <<"customers", "first_name", "c.first_name">>,
               <<"customers", "last_name", "c.last_name">>,
               <<"customers", "city", "c.city">>,
               <<"orders", "total_amount", "o.total_amount">>,
               <<"customers", "customer_id", "c.customer_id">>,
               <<"orders", "customer_id", "o.customer_id">> >>
      [] sql = SqlRevenue ->
            << <<"customers", "city", "c.city">>,
               <<"orders", "total_amount", "o.total_amount">>,
               <<"customers", "customer_id", "c.customer_id">>,
               <<"orders", "customer_id", "o.customer_id">> >>
      [] sql = SqlAllCustomers ->
            << <<"customers", "registration_date", "registration_date">> >>
      [] sql = SqlOrderStatus ->
            << <<"orders", "order_id", "order_id">>,
               <<"orders", "customer_id", "customer_id">>,
               <<"orders", "total_amount", "total_amount">>,
               <<"orders", "status", "status">> >>
      [] sql = SqlProducts -> << <<"products", "price", "price">> >>
      [] sql = SqlOrderCount ->
            << <<"customers", "customer_id", "c.customer_id">>,
               <<"customers", "first_name", "c.first_name">>,
               <<"orders", "order_id", "o.order_id">>,
               <<"orders", "customer_id", "o.customer_id">> >>
      [] OTHER -> <<>>

Templates ==
    { SqlMumbai, SqlRevenue, SqlAllCustomers, SqlOrderStatus, SqlProducts,
      SqlOrderCount, SqlFallback }

MissingTables(d, sql) ==
    { i \in 1..Len(FromTables(sql)) : ~HasTable(d, FromTables(sql)[i]) }

MissingColumns(d, sql) ==
    { i \in 1..Len(ColumnRefs(sql)) :
        ~HasColumn(d, ColumnRefs(sql)[i][1], ColumnRefs(sql)[i][2]) }

\* Each of the seven statements is a query: it returns rows and changes
\* nothing.
IsQuery(sql) == sql \in Templates

Least(S) == CHOOSE i \in S : \A j \in S : i <= j

\* The message of the sqlite3.OperationalError for statement sql, "" if none:
\* the first table, else the first column, that the database does not have.
StatementError(d, sql) ==
    IF sql \notin Templates THEN "(sqlite3.OperationalError) syntax error"
    ELSE IF MissingTables(d, sql) # {}
    THEN "(sqlite3.OperationalError) no such table: "
         \o FromTables(sql)[Least(MissingTables(d, sql))]
    ELSE IF MissingColumns(d, sql) # {}
    THEN "(sqlite3.OperationalError) no such column: "
         \o ColumnRefs(sql)[Least(MissingColumns(d, sql))][3]
    ELSE ""

\* Result column names of a statement that SQLite accepts.
ResultColumns(d, sql) ==
    CASE sql = SqlMumbai -> << "first_name", "last_name", "city", "total_purchases" >>
      [] sql = SqlRevenue -> << "city", "total_revenue" >>
      [] sql = SqlAllCustomers -> ColumnNames(d, "customers")
      [] sql = SqlOrderStatus -> << "order_id", "customer_id", "total_amount", "status" >>
      [] sql = SqlProducts -> ColumnNames(d, "products")
      [] sql = SqlOrderCount -> << "customer_id", "first_name", "order_count" >>
      [] sql = SqlFallback -> ColumnNames(d, "customers")
      [] OTHER -> <<>>

\* One row per customer that has orders: the customer row and its orders.
JoinedCustomers(d) ==
    LET id == ColumnIndex(d, "customers", "customer_id")
    IN SelectSeq2(d.customers,
           { i \in 1..Len(d.customers) : OrdersOf(d, d.customers[i][id]) # <<>> })

RevenueRows(d) ==
    LET id == ColumnIndex(d, "customers", "customer_id")
        city == ColumnIndex(d, "customers", "city")
        js == JoinedCustomers(d)
        first == { i \in 1..Len(js) : \A j \in 1..(i - 1) : js[j][city] # js[i][city] }
        total(c) == Sum([i \in 1..Len(js) |->
                        IF js[i][city] = c THEN Sum(Amounts(d, OrdersOf(d, js[i][id])))
                        ELSE 0])
        groups == SelectSeq2(js, first)
        rows == [i \in 1..Len(groups) |-> << groups[i][city], total(groups[i][city]) >>]
    IN SortDescBy(rows, 2, FALSE)

MumbaiRows(d) ==
    LET id == ColumnIndex(d, "customers", "customer_id")
        city == ColumnIndex(d, "customers", "city")
        js == JoinedCustomers(d)
        in == SelectSeq2(js, { i \in 1..Len(js) : js[i][city] = "Mumbai" })
    IN [i \in 1..Len(in) |->
          << in[i][ColumnIndex(d, "customers", "first_name")],
             in[i][ColumnIndex(d, "customers", "last_name")],
             in[i][city],
             Sum(Amounts(d, OrdersOf(d, in[i][id]))) >>]

OrderStatusRows(d) ==
    [i \in 1..Len(d.orders) |->
        << d.orders[i][ColumnIndex(d, "orders", "order_id")],
           d.orders[i][ColumnIndex(d, "orders", "customer_id")],
           d.orders[i][ColumnIndex(d, "orders", "total_amount")],
           d.orders[i][ColumnIndex(d, "orders", "status")] >>]

OrderCountRows(d) ==
    LET id == ColumnIndex(d, "customers", "customer_id")
        rows == [i \in 1..Len(d.customers) |->
                    << d.customers[i][id],
                       d.customers[i][ColumnIndex(d, "customers", "first_name")],
                       Len(OrdersOf(d, d.customers[i][id])) >>]
    IN SortDescBy(rows, 3, FALSE)

\* Result rows, in fetch order, of a statement that SQLite accepts.
ResultRows(d, sql) ==
    CASE sql = SqlMumbai -> MumbaiRows(d)
      [] sql = SqlRevenue -> RevenueRows(d)
      [] sql = SqlAllCustomers ->
            SortDescBy(d.customers,
                       ColumnIndex(d, "customers", "registration_date"), TRUE)
      [] sql = SqlOrderStatus -> OrderStatusRows(d)
      [] sql = SqlProducts ->
            SortDescBy(d.products, ColumnIndex(d, "products", "price"), FALSE)
      [] sql = SqlOrderCount -> OrderCountRows(d)
      [] sql = SqlFallback ->
            SubSeq(d.customers, 1, IF Len(d.customers) < 10 THEN Len(d.customers) ELSE 10)
      [] OTHER -> <<>>

----------------------------------------------------------------------------
(* The service: requests, sessions, responses.                             *)

NumReq == 2

Reqs == 1..NumReq
SessionIds == 1..NumReq

\* Question texts that requests carry: those of test.py, one more for each
\* remaining rule, and a frontend example that matches no rule.
RequestQuestions ==
    { "List customers from Mumbai",
      "What is the total revenue by city?",
      "Show me all customers limit 5",
      "orders by status",
      "Show all products sorted by price",
      "number of orders per customer",
      "Show all employees in the Engineering department." }

\* generate_sql on the request questions, evaluated once.
Translated == [question \in RequestQuestions |-> generate_sql(question)]

\* Optional[...] fields: None, or the value.
None == <<>>
Some(v) == <<v>>

NoResponse == [kind |-> "none"]

\* QueryResponse(sql_query=..., results=..., error=...); execution_time is
\* wall-clock time and is left out.
QueryResponse(sql_query, results, error) ==
    [kind |-> "QueryResponse", sql_query |-> sql_query, results |-> results,
     error |-> error]

\* HTTPException(status_code=500, detail=...) raised by get_schema.
HTTPException(status_code, detail) ==
    [kind |-> "HTTPException", status_code |-> status_code, detail |-> detail]

\* An exception that leaves the handler; the server answers 500.
Unhandled(exc) == [kind |-> "unhandled", exc |-> exc]

\* Faults of the environment, as the text of the exception.
TranslationFault == "MemoryError"
DatabaseFault == "(sqlite3.OperationalError) database is locked"

\* A worker's request: question is the text that line 118 or 129 has
\* translated into sql, sid the Session of Depends(get_db), res the result of
\* db.execute, tables/described/schema the locals of get_schema's loop.
IdleRequest ==
    [kind |-> "idle", pc |-> "idle", question |-> "", sqlBound |-> FALSE,
     sql |-> "", sid |-> 0, res |-> None, tables |-> <<>>, described |-> 0,
     schema |-> <<>>, resp |-> NoResponse]

\* A Session: closes counts close() calls, dirty says whether it holds
\* uncommitted changes, commits counts commit() calls, statement is the last
\* text given to execute(), users the workers that called it.
FreeSession ==
    [state |-> "free", closes |-> 0, dirty |-> FALSE, commits |-> 0,
     statement |-> "", users |-> {}]

\* Requests are taken by the first idle worker.
Accepts(r) ==
    /\ req[r].kind = "idle"
    /\ \A o \in Reqs : o < r => req[o].kind # "idle"

\* As SessionLocal, but handing every call the one Session made when the
\* module was loaded.
SessionLocal_Shared(r) == 1

\* SessionLocal() constructs a new Session: worker r's call gets the r-th
\* object, which is free whenever worker r is idle.
SessionLocal(r) == r

\* get_db, up to its yield.
get_db(r, kind, pc) ==
    /\ Accepts(r)
    /\ req' = [req EXCEPT ![r] = [IdleRequest EXCEPT !.kind = kind, !.pc = pc,
                                                     !.sid = SessionLocal(r)]]
    /\ sessions' = [sessions EXCEPT ![SessionLocal(r)] =
                       [FreeSession EXCEPT !.state = "open"]]

\* The response once it has been sent: only its kind is remembered.
Sent(resp) == [kind |-> "sent", of |-> resp.kind]

\* Session.close(): what the session has not committed is rolled back.
Close(session) ==
    [session EXCEPT !.state = "closed", !.closes = @ + 1, !.dirty = FALSE]

\* As Teardown, but with db.close() after the yield and no finally: an
\* exception thrown into the generator skips it.
Teardown_NoFinally(r) ==
    /\ req[r].kind \in {"execute", "schema"} /\ req[r].pc = "responded"
    /\ req' = [req EXCEPT ![r] =
                  [IdleRequest EXCEPT !.kind = req[r].kind, !.pc = "completed",
                                      !.sid = req[r].sid,
                                      !.resp = Sent(req[r].resp)]]
    /\ sessions' = IF req[r].resp.kind \in {"unhandled", "HTTPException"}
                   THEN sessions
                   ELSE [sessions EXCEPT ![req[r].sid] = Close(@)]
    /\ UNCHANGED <<db, is_initialized, tvars>>

\* As Teardown, but closing the session as soon as the statement has run,
\* before the handler has classified it.
Teardown_Early(r) ==
    /\ req[r].kind \in {"execute", "schema"}
    /\ req[r].pc \in {"classify", "responded"}
    /\ req' = [req EXCEPT ![r] =
                  [IdleRequest EXCEPT !.kind = req[r].kind, !.pc = "completed",
                                      !.sid = req[r].sid,
                                      !.resp = Sent(req[r].resp)]]
    /\ sessions' = [sessions EXCEPT ![req[r].sid] = Close(@)]
    /\ UNCHANGED <<db, is_initialized, tvars>>

\* get_db, after its yield: finally db.close().  It runs whether the handler
\* returned or raised; the response has been sent by then.
Teardown(r) ==
    /\ req[r].kind \in {"execute", "schema"} /\ req[r].pc = "responded"
    /\ req' = [req EXCEPT ![r] =
                  [IdleRequest EXCEPT !.kind = req[r].kind, !.pc = "completed",
                                      !.sid = req[r].sid,
                                      !.resp = Sent(req[r].resp)]]
    /\ sessions' = [sessions EXCEPT ![req[r].sid] = Close(@)]
    /\ UNCHANGED <<db, is_initialized, tvars>>

\* The request is over: the worker is idle again and the request's Session
\* object, if it had one, is garbage.
Deliver(r) ==
    /\ \/ req[r].kind \in {"root", "generate"} /\ req[r].pc = "responded"
       \/ req[r].pc = "completed"
    /\ req' = [req EXCEPT ![r] = IdleRequest]
    /\ sessions' = IF req[r].sid = 0 THEN sessions
                   ELSE [sessions EXCEPT ![req[r].sid] = FreeSession]
    /\ UNCHANGED <<db, is_initialized, tvars>>

\* Worker r calls a method of Session s; execute() is given statement.
Use(s, r) == [sessions EXCEPT ![s].users = @ \cup {r}]

Execute(s, r, statement) ==
    [sessions EXCEPT ![s].users = @ \cup {r}, ![s].statement = statement]

----------------------------------------------------------------------------
(* GET / and POST /generate-sql.                                           *)

root(r) ==
    /\ Accepts(r)
    /\ req' = [req EXCEPT ![r] =
                  [IdleRequest EXCEPT !.kind = "root", !.pc = "responded",
                      !.resp = [kind |-> "status", status |-> "healthy",
                                sqlcoder_initialized |-> is_initialized]]]
    /\ UNCHANGED <<sessions, db, is_initialized, tvars>>

\* The handler's try block and its except block, for the request body
\* {question}; fault says whether generate_sql raised.
generate_sql_endpoint(r, question) ==
    /\ Accepts(r)
    /\ \E fault \in BOOLEAN :
          req' = [req EXCEPT ![r] =
                    IF fault
                    THEN [IdleRequest EXCEPT !.kind = "generate", !.pc = "responded",
                             !.resp = QueryResponse("", None, Some(TranslationFault))]
                    ELSE LET sql == Translated[question]
                         IN [IdleRequest EXCEPT !.kind = "generate", !.pc = "responded",
                                !.question = question, !.sqlBound = TRUE, !.sql = sql,
                                !.resp = QueryResponse(sql, None, None)]]
    /\ UNCHANGED <<sessions, db, is_initialized, tvars>>

----------------------------------------------------------------------------
(* POST /execute-query.                                                    *)

\* Depends(get_db) is resolved before the handler is entered.
ArriveExecute(r) ==
    /\ get_db(r, "execute", "translate")
    /\ UNCHANGED <<db, is_initialized, tvars>>

\* As ExecuteExcept, but answering with an empty sql_query, as line 122 does.
ExecuteExcept_EmptySql(rq, e) ==
    [rq EXCEPT !.pc = "responded", !.res = None,
               !.resp = QueryResponse("", None, Some(e))]

\* As ExecuteExcept, but answering with an empty result list beside the
\* error.
ExecuteExcept_WithResults(rq, e) ==
    [rq EXCEPT !.pc = "responded", !.res = None,
               !.resp = QueryResponse(rq.sql, Some(<<>>), Some(e))]

\* Lines 139-141, run when any line of the try block raises: the response
\* names the local sql, which is bound only once line 129 has returned.
ExecuteExcept(rq, e) ==
    IF rq.sqlBound
    THEN [rq EXCEPT !.pc = "responded", !.res = None,
                    !.resp = QueryResponse(rq.sql, None, Some(e))]
    ELSE [rq EXCEPT !.pc = "responded", !.resp = Unhandled("UnboundLocalError")]

\* As IsSelect, but sending every statement down the write path.
IsSelect_Never(sql) == FALSE

\* As IsSelect, but without .upper().
IsSelect_CaseSensitive(sql) == startswith(strip(sql), "select")

\* The test of line 131.
IsSelect(sql) == startswith(upper(strip(sql)), "SELECT")

\* The test on the seven statements, evaluated once.
SelectTemplates == { sql \in Templates : IsSelect(sql) }

IsSelectStatement(sql) ==
    IF sql \in Templates THEN sql \in SelectTemplates ELSE IsSelect(sql)

\* Line 129 on the request body {question}, then line 130,
\* db.execute(text(sql)): the statement is compiled
\* and run in the session's transaction; a statement SQLite rejects has no
\* effect.  fault: "translate" when generate_sql raises, "database" when the
\* database fails for a reason of its own, "none" otherwise.
ExecuteRun(r, question) ==
    /\ req[r].kind = "execute" /\ req[r].pc = "translate"
    /\ \E fault \in {"none", "translate", "database"} :
          IF fault = "translate"
          THEN /\ req' = [req EXCEPT ![r] = ExecuteExcept(@, TranslationFault)]
               /\ sessions' = sessions
          ELSE LET sql == Translated[question]
                   bound == [req[r] EXCEPT !.question = question,
                                           !.sqlBound = TRUE, !.sql = sql]
                   e == IF fault = "database" THEN DatabaseFault
                        ELSE StatementError(db, sql)
                   query == IsQuery(sql)
               IN /\ req' = [req EXCEPT ![r] =
                               IF e # "" THEN ExecuteExcept(bound, e)
                               ELSE [bound EXCEPT !.pc = "classify",
                                        !.res = Some([columns |-> ResultColumns(db, sql),
                                                      rows |-> ResultRows(db, sql),
                                                      rowcount |-> IF query THEN -1 ELSE 0])]]
                  /\ sessions' = [Execute(req[r].sid, r, sql) EXCEPT
                                     ![req[r].sid].dirty = @ \/ (e = "" /\ ~query)]
    /\ UNCHANGED <<db, is_initialized, tvars>>

\* Line 134: one dict per row; a later column of the same name overwrites.
RowMapping(cols, row) ==
    [c \in { cols[i] : i \in 1..Len(cols) } |->
        row[CHOOSE i \in 1..Len(cols) :
               cols[i] = c /\ \A j \in 1..Len(cols) : cols[j] = c => j <= i]]

\* As RowMappings, but keeping no more than the first three rows.
RowMappings_Limit(cols, rows) ==
    [k \in 1..(IF Len(rows) < 3 THEN Len(rows) ELSE 3) |-> RowMapping(cols, rows[k])]

RowMappings(cols, rows) == [k \in 1..Len(rows) |-> RowMapping(cols, rows[k])]

\* Lines 131-138: fetch (SELECT) or commit (anything else), then return.
ExecuteFinish(r) ==
    /\ req[r].kind = "execute" /\ req[r].pc = "classify"
    /\ \E fault \in BOOLEAN :
          LET res == req[r].res[1]
              sid == req[r].sid
          IN IF IsSelectStatement(req[r].sql)
             THEN /\ req' = [req EXCEPT ![r] =
                               IF fault THEN ExecuteExcept(@, DatabaseFault)
                               ELSE [@ EXCEPT !.pc = "responded", !.res = None,
                                        !.resp = QueryResponse(req[r].sql,
                                            Some(RowMappings(res.columns, res.rows)),
                                            None)]]
                  /\ sessions' = Use(sid, r)
                  /\ db' = db
             ELSE /\ req' = [req EXCEPT ![r] =
                               IF fault THEN ExecuteExcept(@, DatabaseFault)
                               ELSE [@ EXCEPT !.pc = "responded", !.res = None,
                                        !.resp = QueryResponse(req[r].sql,
                                            Some(<< [message |-> "Executed successfully",
                                                     rows_affected |-> res.rowcount] >>),
                                            None)]]
                  /\ sessions' = IF fault THEN Use(sid, r)
                                 ELSE [Use(sid, r) EXCEPT ![sid].commits = @ + 1,
                                                          ![sid].dirty = FALSE]
                  /\ db' = IF ~fault /\ sessions[sid].dirty
                           THEN [db EXCEPT !.writes = @ + 1] ELSE db
    /\ UNCHANGED <<is_initialized, tvars>>

----------------------------------------------------------------------------
(* GET /schema.                                                            *)

ArriveSchema(r) ==
    /\ get_db(r, "schema", "list")
    /\ UNCHANGED <<db, is_initialized, tvars>>

\* PRAGMA table_info(t): one row per column; no row for a table that is
\* not there.
TableInfo(d, t) == IF HasTable(d, t) THEN d.columns[t] ELSE <<>>

\* dict[key] = value, on a dict kept as its items in insertion order.
DictSet(dict, key, value) ==
    IF \E i \in 1..Len(dict) : dict[i][1] = key
    THEN [i \in 1..Len(dict) |-> IF dict[i][1] = key THEN <<key, value>> ELSE dict[i]]
    ELSE Append(dict, <<key, value>>)

SchemaResponse(schema) == [kind |-> "schema", schema |-> schema]

\* As SchemaExcept, but answering with the tables described so far.
SchemaExcept_Partial(rq, e) ==
    [rq EXCEPT !.pc = "responded", !.resp = SchemaResponse(rq.schema)]

\* Line 154: the schema built so far is dropped with the handler's frame.
SchemaExcept(rq, e) ==
    [rq EXCEPT !.pc = "responded", !.schema = <<>>, !.resp = HTTPException(500, e)]

\* As SchemaList, but answering from the table list read when the service
\* started.
SchemaList_Cached(r) ==
    /\ req[r].kind = "schema" /\ req[r].pc = "list"
    /\ \E fault \in BOOLEAN :
          req' = [req EXCEPT ![r] =
                    IF fault THEN SchemaExcept(@, DatabaseFault)
                    ELSE [@ EXCEPT !.pc = "describe", !.tables = SeededDb.tables]]
    /\ sessions' = Execute(req[r].sid, r,
                           "SELECT name FROM sqlite_master WHERE type='table';")
    /\ UNCHANGED <<db, is_initialized, tvars>>

\* Lines 147-148, and line 152 when there is no table.
SchemaList(r) ==
    /\ req[r].kind = "schema" /\ req[r].pc = "list"
    /\ \E fault \in BOOLEAN :
          req' = [req EXCEPT ![r] =
                    IF fault THEN SchemaExcept(@, DatabaseFault)
                    ELSE IF db.tables = <<>>
                    THEN [@ EXCEPT !.pc = "responded", !.resp = SchemaResponse(<<>>)]
                    ELSE [@ EXCEPT !.pc = "describe", !.tables = db.tables]]
    /\ sessions' = Execute(req[r].sid, r,
                           "SELECT name FROM sqlite_master WHERE type='table';")
    /\ UNCHANGED <<db, is_initialized, tvars>>

\* Lines 149-151 for the next table, and line 152 after the last.
SchemaDescribe(r) ==
    /\ req[r].kind = "schema" /\ req[r].pc = "describe"
    /\ \E fault \in BOOLEAN :
          LET table_name == req[r].tables[req[r].described + 1]
              cols == TableInfo(db, table_name)
              schema == DictSet(req[r].schema, table_name,
                                [i \in 1..Len(cols) |->
                                    [name |-> cols[i].name, type |-> cols[i].type]])
          IN /\ req' = [req EXCEPT ![r] =
                          IF fault THEN SchemaExcept(@, DatabaseFault)
                          ELSE IF req[r].described + 1 = Len(req[r].tables)
                          THEN [@ EXCEPT !.pc = "responded", !.described = @ + 1,
                                         !.schema = <<>>,
                                         !.resp = SchemaResponse(schema)]
                          ELSE [@ EXCEPT !.described = @ + 1, !.schema = schema]]
             /\ sessions' = Execute(req[r].sid, r,
                                    "PRAGMA table_info(" \o table_name \o ");")
    /\ UNCHANGED <<db, is_initialized, tvars>>

----------------------------------------------------------------------------
(* The service as a whole.                                                 *)

\* SQLCoderService.__init__: whether transformers can be imported.
Init ==
    /\ req = [r \in Reqs |-> IdleRequest]
    /\ sessions = [s \in SessionIds |-> FreeSession]
    /\ db = SeededDb
    /\ is_initialized \in BOOLEAN
    /\ tq = <<"", "">>
    /\ tsql = <<"", "">>
    /\ tdone = <<FALSE, FALSE>>

Next ==
    \E r \in Reqs :
        \/ root(r)
        \/ \E question \in RequestQuestions : generate_sql_endpoint(r, question)
        \/ ArriveExecute(r)
        \/ \E question \in RequestQuestions : ExecuteRun(r, question)
        \/ ExecuteFinish(r)
        \/ ArriveSchema(r)
        \/ SchemaList(r)
        \/ SchemaDescribe(r)
        \/ Teardown(r)
        \/ Deliver(r)

Spec == Init /\ [][Next]_vars

\* A worker runs the handler it has entered, and the dependency's teardown,
\* to the end; nothing obliges a client to send a request.
Handle(r) ==
    \/ \E question \in RequestQuestions : ExecuteRun(r, question)
    \/ ExecuteFinish(r)
    \/ SchemaList(r)
    \/ SchemaDescribe(r)
    \/ Teardown(r)
    \/ Deliver(r)

FairSpec == Spec /\ \A r \in Reqs : WF_vars(Handle(r))

----------------------------------------------------------------------------
(* The seeding script, run again on the database file while the service   *)
(* is up.  Each DROP and each CREATE of init_db.py is committed by itself; *)
(* the inserted rows are committed together at the end.  The script's      *)
(* position is read off the tables that are there.  Its statements fall    *)
(* between introspections, not between the reads of one.                   *)

ScriptTables ==
    << "departments", "employees", "projects", "attendance",
       "customers", "products", "orders", "order_items" >>

\* The script's tables that the database has.
Present(d) == { i \in 1..Len(ScriptTables) : HasTable(d, ScriptTables[i]) }

Without(tables, t) == SelectSeq(tables, LAMBDA x : x # t)

\* No get_schema call is inside its loop.
BetweenIntrospections == \A r \in Reqs : req[r].pc # "describe"

\* Lines 12-18: DROP TABLE IF EXISTS, table after table; started on a seeded
\* database.  A dropped table's rows go with it; sqlite_sequence stays.
DropTable ==
    /\ BetweenIntrospections
    /\ \E k \in 1..Len(ScriptTables) :
          /\ Present(db) = k..Len(ScriptTables)
          /\ k = 1 => db.customers # <<>>
          /\ db' = [db EXCEPT
                      !.tables = Without(@, ScriptTables[k]),
                      !.customers = IF ScriptTables[k] = "customers" THEN <<>> ELSE @,
                      !.products = IF ScriptTables[k] = "products" THEN <<>> ELSE @,
                      !.orders = IF ScriptTables[k] = "orders" THEN <<>> ELSE @]
    /\ UNCHANGED <<req, sessions, is_initialized, tvars>>

\* Lines 21-81: executescript, one CREATE TABLE after another.
CreateTable ==
    /\ BetweenIntrospections
    /\ \E k \in 1..Len(ScriptTables) :
          /\ Present(db) = 1..(k - 1)
          /\ db' = [db EXCEPT !.tables = Append(@, ScriptTables[k])]
    /\ UNCHANGED <<req, sessions, is_initialized, tvars>>

\* Lines 84-161: the rows, visible to others at conn.commit().
InsertRows ==
    /\ BetweenIntrospections
    /\ Present(db) = 1..Len(ScriptTables)
    /\ db.customers = <<>>
    /\ db' = [db EXCEPT !.customers = SeededCustomers,
                        !.products = SeededProducts,
                        !.orders = SeededOrders]
    /\ UNCHANGED <<req, sessions, is_initialized, tvars>>

\* Introspection and the status endpoint, one call at a time, while the
\* script may run.
NextD ==
    \/ \E r \in {1} :
          \/ root(r)
          \/ ArriveSchema(r)
          \/ SchemaList(r)
          \/ SchemaDescribe(r)
          \/ Teardown(r)
          \/ Deliver(r)
    \/ DropTable
    \/ CreateTable
    \/ InsertRows

SpecD == Init /\ [][NextD]_vars

----------------------------------------------------------------------------
(* Translator harness: two calls of generate_sql, in either order.         *)

InitT ==
    /\ \E q \in Questions : \E v \in Variants(q) : tq = <<q, v>>
    /\ tsql = <<"", "">>
    /\ tdone = <<FALSE, FALSE>>
    /\ req = [r \in Reqs |-> IdleRequest]
    /\ sessions = [s \in SessionIds |-> FreeSession]
    /\ db = SeededDb
    /\ is_initialized = TRUE

Translate(i) ==
    /\ ~tdone[i]
    /\ tsql' = [tsql EXCEPT ![i] = generate_sql(tq[i])]
    /\ tdone' = [tdone EXCEPT ![i] = TRUE]
    /\ UNCHANGED <<tq, svars>>

NextT == \E i \in 1..2 : Translate(i)

SpecT == InitT /\ [][NextT]_vars

----------------------------------------------------------------------------
(* Properties of the translator, checked under SpecT.                      *)

\* C1: generate_sql is total: every call returns, whatever the question
\* (the empty text included), a non-empty SQL text, and the text is the
\* fallback statement whenever none of the six keyword rules matches.
C1_TotalWithFallback ==
    \A i \in 1..2 :
        tdone[i] =>
            /\ Len(tsql[i]) > 0
            /\ (MatchingRules(tq[i]) = {7} => tsql[i] = SqlFallback)

C1_Witness ==
    /\ tdone[1] /\ tq[1] = "" /\ tsql[1] = SqlFallback
    /\ tdone[2] /\ tsql[2] = SqlFallback

\* C2: the SQL returned is the statement of the first rule, in the order
\* of declaration, whose test the question passes; later rules that match
\* as well do not change it.
C2_FirstMatchWins ==
    \A i \in 1..2 :
        tdone[i] => tsql[i] = RuleTemplate[Least(MatchingRules(tq[i]))]

C2_Witness ==
    /\ tdone[1]
    /\ {4, 5} \subseteq MatchingRules(tq[1])
    /\ tsql[1] = SqlOrderStatus

\* Runs of whitespace replaced by a single blank.
RECURSIVE CollapseSpaces(_)
CollapseSpaces(s) ==
    IF Len(s) = 0 THEN ""
    ELSE IF CharAt(s, 1) \in Whitespace
    THEN " " \o CollapseSpaces(lstrip(s))
    ELSE CharAt(s, 1) \o CollapseSpaces(SubSeq(s, 2, Len(s)))

\* C4 as claimed: two questions that differ only in letter case or in the
\* amount of whitespace between words are translated to the same statement.
C4_CaseAndSpacingInsensitive ==
    (tdone[1] /\ tdone[2]
        /\ CollapseSpaces(lower(tq[1])) = CollapseSpaces(lower(tq[2])))
    => tsql[1] = tsql[2]

\* C4 as amended: the question is lower-cased, and nothing else, before the
\* rules are tested: two questions that differ only in letter case are
\* translated to the same statement.
C4_CaseInsensitive ==
    (tdone[1] /\ tdone[2] /\ lower(tq[1]) = lower(tq[2])) => tsql[1] = tsql[2]

C4_Witness ==
    /\ tdone[1] /\ tdone[2]
    /\ tq[1] # tq[2] /\ lower(tq[1]) = lower(tq[2])
    /\ tsql[1] = SqlAllCustomers /\ tsql[2] = SqlAllCustomers

----------------------------------------------------------------------------
(* Claims about the running service, checked under Spec and FairSpec.      *)

C5_ClosedMapping ==
    \A r \in Reqs :
        /\ req[r].sqlBound => req[r].sql \in Templates
        /\ (req[r].resp.kind = "QueryResponse" /\ req[r].resp.sql_query # "")
              => req[r].resp.sql_query \in Templates
        /\ (req[r].kind = "execute" /\ req[r].sid # 0
              /\ sessions[req[r].sid].statement # "")
              => sessions[req[r].sid].statement \in Templates

\* execute-query has submitted the fallback statement for a question that
\* matches no rule.
C5_Witness ==
    \E r \in Reqs :
        /\ req[r].kind = "execute" /\ req[r].pc = "classify"
        /\ req[r].question = "Show all employees in the Engineering department."
        /\ sessions[req[r].sid].statement = SqlFallback
        /\ SqlFallback \in Templates

\* C6: execute-query classifies the statement by its leading keyword: a
\* statement that begins with SELECT is never committed and is answered with
\* the rows fetched; any other statement is answered with the rows-affected
\* summary only after its session has committed.
C6_ReadWriteClassification ==
    \A r \in Reqs :
        (req[r].kind = "execute" /\ req[r].sqlBound) =>
            LET session == sessions[req[r].sid]
                resp == req[r].resp
                success == resp.kind = "QueryResponse" /\ resp.error = None
                summary == /\ Len(resp.results[1]) = 1
                           /\ DOMAIN resp.results[1][1] = {"message", "rows_affected"}
            IN IF upper(SubSeq(strip(req[r].sql), 1, 6)) = "SELECT"
               THEN /\ session.commits = 0
                    /\ success => ~summary
               ELSE success => (summary /\ session.commits = 1)

\* A SELECT has been answered with its five rows and without a commit.
C6_Witness ==
    \E r \in Reqs :
        /\ req[r].kind = "execute" /\ req[r].pc = "responded"
        /\ req[r].sql = SqlProducts
        /\ req[r].resp.error = None
        /\ Len(req[r].resp.results[1]) = 5
        /\ req[r].resp.results[1][1].product_name = "Laptop"
        /\ sessions[req[r].sid].commits = 0

\* C7: when the database rejects the statement of an execute-query call, the
\* response carries the failure message as error, the generated SQL as
\* sql_query and no results; nothing has been committed and the database is
\* as it was.
C7_ErrorContainment ==
    \A r \in Reqs :
        (req[r].kind = "execute" /\ req[r].pc = "responded" /\ req[r].sqlBound
            /\ StatementError(db, req[r].sql) # "") =>
            /\ req[r].resp.kind = "QueryResponse"
            /\ req[r].resp.error \in { Some(StatementError(db, req[r].sql)),
                                       Some(DatabaseFault) }
            /\ req[r].resp.sql_query = Translated[req[r].question]
            /\ req[r].resp.results = None
            /\ sessions[req[r].sid].commits = 0
            /\ ~sessions[req[r].sid].dirty
            /\ db = SeededDb

\* The statement for customers in Mumbai names a column that customers does
\* not have, and the call has answered with SQLite's message.
C7_Witness ==
    \E r \in Reqs :
        /\ req[r].kind = "execute" /\ req[r].pc = "responded"
        /\ req[r].question = "List customers from Mumbai"
        /\ req[r].resp.sql_query = SqlMumbai
        /\ req[r].resp.error =
              Some("(sqlite3.OperationalError) no such column: c.first_name")
        /\ db = SeededDb

\* C8: every generate-sql and execute-query call ends with a response object,
\* whatever step raised: no exception leaves the handler.
C8_NeverThrows ==
    \A r \in Reqs :
        (req[r].kind \in {"generate", "execute"} /\ req[r].pc = "responded")
            => req[r].resp.kind = "QueryResponse"

\* C9: the session of an execute-query or schema request is closed exactly
\* once on every exit path: never twice, closed once the dependency has been
\* torn down, open only while its request is in the handler, and every open
\* session is eventually closed.
C9_SessionClosedOnce ==
    /\ [](/\ \A s \in SessionIds :
               /\ sessions[s].closes <= 1
               /\ (sessions[s].state = "closed") <=> (sessions[s].closes = 1)
               /\ (sessions[s].state = "open") =>
                     \E r \in Reqs : /\ req[r].sid = s
                                     /\ req[r].kind \in {"execute", "schema"}
                                     /\ req[r].pc \notin {"idle", "completed"}
          /\ \A r \in Reqs :
               (req[r].pc = "completed") =>
                   /\ sessions[req[r].sid].state = "closed"
                   /\ sessions[req[r].sid].closes = 1)
    /\ \A s \in SessionIds :
          (sessions[s].state = "open") ~> (sessions[s].state = "closed")

\* A schema request that ended in HTTP 500 has had its session closed once.
C9_Witness ==
    \E r \in Reqs :
        /\ req[r].kind = "schema" /\ req[r].pc = "completed"
        /\ req[r].resp.of = "HTTPException"
        /\ sessions[req[r].sid].state = "closed"
        /\ sessions[req[r].sid].closes = 1

\* C10: a schema request answers either with an entry for every table it
\* listed, each holding that table's columns (name and type) in declaration
\* order, or with HTTP 500; never with a map of some of the tables.
C10_SchemaAllOrNothing ==
    \A r \in Reqs :
        (req[r].kind = "schema" /\ req[r].pc = "responded") =>
            \/ /\ req[r].resp.kind = "HTTPException"
               /\ req[r].resp.status_code = 500
            \/ /\ req[r].resp.kind = "schema"
               /\ Len(req[r].resp.schema) = Len(db.tables)
               /\ \A i \in 1..Len(db.tables) :
                     LET entry == req[r].resp.schema[i]
                         declared == db.columns[db.tables[i]]
                     IN /\ entry[1] = db.tables[i]
                        /\ Len(entry[2]) = Len(declared)
                        /\ \A j \in 1..Len(declared) :
                              /\ entry[2][j].name = declared[j].name
                              /\ entry[2][j].type = declared[j].type

\* Introspection failed after four tables had been described, and the
\* answer is HTTP 500.
C10_Witness ==
    \E r \in Reqs :
        /\ req[r].kind = "schema" /\ req[r].pc = "responded"
        /\ req[r].described = 4
        /\ req[r].resp = HTTPException(500, DatabaseFault)

\* C11 (as stated): every execute-query request goes Classify, Acquire, Run,
\* Commit-or-Rollback, Release: when the handler classifies the statement no
\* session has been acquired and nothing has been submitted, and the session
\* is released last.
C11_ClassifyAcquireRun ==
    [][\A r \in Reqs :
          /\ (req[r].kind = "execute" /\ req[r].pc = "classify"
                /\ req'[r].pc = "responded") =>
                /\ sessions[req[r].sid].state # "open"
                /\ sessions[req[r].sid].statement = ""
          /\ (sessions[r].state = "open" /\ sessions'[r].state = "closed") =>
                \E q \in Reqs : /\ req[q].sid = r /\ req[q].pc = "responded"
                                /\ req'[q].pc = "completed"]_vars

\* C11 (amended): every execute-query request goes Acquire, Run, Classify,
\* Fetch-or-Commit, Release: the statement is submitted on a session already
\* open, it is classified only after it has been submitted, a commit happens
\* only in the step that classifies, and the session is closed last, after
\* the response has been produced.
C11_AcquireRunClassify ==
    [][\A r \in Reqs :
          /\ (req[r].kind = "execute" /\ req[r].pc = "translate"
                /\ req'[r].pc # "translate") =>
                /\ sessions[req[r].sid].state = "open"
                /\ sessions[req[r].sid].statement = ""
          /\ (req[r].kind = "execute" /\ req[r].pc = "classify"
                /\ req'[r].pc = "responded") =>
                /\ sessions[req[r].sid].state = "open"
                /\ sessions[req[r].sid].statement = req[r].sql
                /\ sessions[req[r].sid].commits = 0
          /\ (sessions'[r].commits > sessions[r].commits) =>
                \E q \in Reqs : /\ req[q].sid = r /\ req[q].pc = "classify"
                                /\ req'[q].pc = "responded"
          /\ (sessions[r].state = "open" /\ sessions'[r].state = "closed") =>
                \E q \in Reqs : /\ req[q].sid = r /\ req[q].pc = "responded"
                                /\ req'[q].pc = "completed"]_vars

\* An execute-query request has acquired its session, submitted its
\* statement and classified it as a read; the session is still open, to be
\* released after the answer.
C11_Witness ==
    \E r \in Reqs :
        /\ req[r].kind = "execute" /\ req[r].pc = "responded"
        /\ req[r].resp.kind = "QueryResponse" /\ req[r].resp.results # None
        /\ sessions[req[r].sid].statement = SqlAllCustomers
        /\ sessions[req[r].sid].state = "open"
        /\ sessions[req[r].sid].closes = 0

C13_OneMappingPerRow ==
    /\ [][\A r \in Reqs :
            (req[r].kind = "execute" /\ req[r].pc = "classify"
                /\ req'[r].pc = "responded" /\ req'[r].resp.error = None) =>
                LET cols == ResultColumns(db, req[r].sql)
                    rows == ResultRows(db, req[r].sql)
                    results == req'[r].resp.results[1]
                IN /\ Len(results) = Len(rows)
                   /\ \A k \in 1..Len(rows) :
                         /\ DOMAIN results[k] = { cols[i] : i \in 1..Len(cols) }
                         /\ \A i \in 1..Len(cols) : results[k][cols[i]] = rows[k][i]]_vars
    /\ [](\A r \in Reqs :
            (req[r].kind = "execute" /\ req[r].pc = "responded"
                /\ req[r].resp.kind = "QueryResponse"
                /\ req[r].resp.sql_query = SqlAllCustomers) =>
                /\ req[r].resp.error \in {None, Some(DatabaseFault)}
                /\ req[r].resp.error = None =>
                      /\ Len(req[r].resp.results[1]) = 4
                      /\ [k \in 1..4 |-> req[r].resp.results[1][k].customer_id]
                            = <<4, 3, 2, 1>>
                      /\ \A k \in 1..4 :
                            DOMAIN req[r].resp.results[1][k] =
                               {"customer_id", "name", "city", "registration_date"})

\* The question of the execution test has been answered with the four
\* customers, Arun Nair of Delhi first.
C13_Witness ==
    \E r \in Reqs :
        /\ req[r].kind = "execute" /\ req[r].pc = "responded"
        /\ req[r].question = "Show me all customers limit 5"
        /\ req[r].resp.error = None
        /\ Len(req[r].resp.results[1]) = 4
        /\ req[r].resp.results[1][1] =
              [customer_id |-> 4, name |-> "Arun Nair", city |-> "Delhi",
               registration_date |-> "2024-11-04"]

C15_SessionPerRequest ==
    /\ [](/\ \A s \in SessionIds :
               /\ Cardinality(sessions[s].users) <= 1
               /\ \A u \in sessions[s].users : req[u].sid = s
               /\ (\A r \in Reqs : req[r].sid # s) => sessions[s] = FreeSession
          /\ \A r \in Reqs :
               /\ (req[r].kind \in {"execute", "schema"}) <=> (req[r].sid # 0)
               /\ \A o \in Reqs \ {r} : req[r].sid # 0 => req[o].sid # req[r].sid)
    /\ [][is_initialized' = is_initialized]_vars

\* Two requests are in their handlers at once, each having run a statement
\* on its own open session.
C15_Witness ==
    /\ req[1].kind = "execute" /\ req[1].pc = "classify"
    /\ req[2].kind = "schema" /\ req[2].pc = "describe"
    /\ req[1].sid # req[2].sid
    /\ sessions[req[1].sid].state = "open" /\ sessions[req[1].sid].users = {1}
    /\ sessions[req[2].sid].state = "open" /\ sessions[req[2].sid].users = {2}

\* C16: every statement generate_sql returns begins with SELECT, so the write
\* path of execute-query is never taken: whatever requests have been served,
\* in whatever interleaving, no session has committed or holds changes, no
\* response is a write summary, and the database is as it was seeded.
C16_NeverWrites ==
    /\ db = SeededDb
    /\ \A s \in SessionIds : sessions[s].commits = 0 /\ ~sessions[s].dirty
    /\ \A r \in Reqs :
          /\ req[r].sqlBound => startswith(req[r].sql, "SELECT")
          /\ (req[r].resp.kind = "QueryResponse" /\ req[r].resp.results # None) =>
                \A k \in 1..Len(req[r].resp.results[1]) :
                    "rows_affected" \notin DOMAIN req[r].resp.results[1][k]

\* An execute-query call and a schema call have both run to their end; the
\* sessions are closed without a commit and the database is as seeded.
C16_Witness ==
    /\ req[1].kind = "execute" /\ req[1].pc = "completed"
    /\ req[1].resp.of = "QueryResponse"
    /\ sessions[req[1].sid].statement = SqlProducts
    /\ req[2].kind = "schema" /\ req[2].pc = "completed"
    /\ req[2].resp.of = "schema"
    /\ \A s \in SessionIds : sessions[s].closes = 1 /\ sessions[s].commits = 0
    /\ db = SeededDb

\* C17: every statement generate_sql returns names only tables and columns
\* the seeding script creates, so on the seeded database execute-query
\* answers every question with results, whichever rule fired; only a failure
\* of the database itself yields an error.
C17_EveryStatementRuns ==
    \A r \in Reqs :
        (req[r].kind = "execute" /\ req[r].pc = "responded"
            /\ req[r].resp.kind = "QueryResponse"
            /\ req[r].resp.error # Some(DatabaseFault)) =>
            /\ req[r].resp.error = None
            /\ req[r].resp.results # None
            /\ MissingTables(db, req[r].sql) = {}
            /\ MissingColumns(db, req[r].sql) = {}

====
